---- MODULE Spec2Model ----
(***************************************************************************)
(* convert.py: batch conversion of the *.usdz files of downloads/ into     *)
(* output/<name>.glb through the host application's operators              *)
(* (bpy.ops.wm.read_factory_settings, bpy.ops.wm.usd_import,               *)
(* bpy.ops.export_scene.gltf).                                             *)
(*                                                                         *)
(* A string is modelled as the sequence of its pieces: the separators "/"  *)
(* and "." are pieces of their own, every other piece is a maximal run of  *)
(* characters holding neither.  os.path is posixpath.                      *)
(***************************************************************************)
EXTENDS Integers, Sequences, FiniteSets, TLC

VARIABLES
    downloads,    \* entries below downloads/, as paths relative to it
    outputExists, \* whether the directory output/ exists
    output,       \* the files of output/: path -> content
    pc,           \* the statement the script is at
    usdz_files,   \* line 8
    idx,          \* position of the for loop of line 13 in usdz_files
    glb_path,     \* line 15
    scene,        \* the host application's scene: the set of imported files
    stdout,       \* the lines printed
    events,       \* the host calls and prints of this run, in order
    hung,         \* a host call was entered and never returns
    run,          \* how many times the script has been started
    prev_done,    \* the previous run ended after its loop (FALSE in the first run)
    prev_names    \* the files of output/ when the previous run ended

vars == <<downloads, outputExists, output, pc, usdz_files, idx, glb_path,
          scene, stdout, events, hung, run, prev_done, prev_names>>

----------------------------------------------------------------------------
(* Bounds of the model *)

\* at most this many entries below downloads/
MaxFiles == 3
\* the script is started at most this many times
MaxRuns == 2

----------------------------------------------------------------------------
(* Strings and paths *)

SEP == "/"
DOT == "."

script_dir == <<SEP, "s">>

Join(a, b) == a \o <<SEP>> \o b

downloads_dir == Join(script_dir, <<"downloads">>)

output_dir == Join(script_dir, <<"output">>)

\* str.rfind: the last position of piece c in p, 0 when there is none
RFind(p, c) ==
    LET hits == {k \in 1..Len(p) : p[k] = c}
    IN  IF hits = {} THEN 0 ELSE CHOOSE k \in hits : \A j \in hits : j <= k

\* posixpath.basename: what follows the last "/"
BaseName(p) == SubSeq(p, RFind(p, SEP) + 1, Len(p))

\* a splitext that cuts at the first dot instead of the last one
SplitExtFirstDot(p) ==
    LET sepIndex == RFind(p, SEP)
        dots     == {k \in (sepIndex + 1)..Len(p) : p[k] = DOT /\ k > sepIndex + 1}
        d        == IF dots = {} THEN 0 ELSE CHOOSE k \in dots : \A j \in dots : k <= j
    IN  IF d = 0 THEN <<p, <<>>>>
        ELSE <<SubSeq(p, 1, d - 1), SubSeq(p, d, Len(p))>>

\* genericpath._splitext: the extension starts at the last dot after the last
\* separator, unless only dots precede it in the file name
SplitExt(p) ==
    LET sepIndex == RFind(p, SEP)
        dotIndex == RFind(p, DOT)
    IN  IF dotIndex > sepIndex
           /\ \E k \in (sepIndex + 1)..(dotIndex - 1) : p[k] # DOT
        THEN <<SubSeq(p, 1, dotIndex - 1), SubSeq(p, dotIndex, Len(p))>>
        ELSE <<p, <<>>>>

\* the pattern of line 8, "*.usdz"
Pattern == <<"*", DOT, "usdz">>

Lower(piece) == IF piece = "USDZ" THEN "usdz" ELSE piece

\* fnmatch against "*.usdz" with the case folded
FnMatchNoCase(name) ==
    /\ Len(name) >= 2
    /\ name[Len(name) - 1] = DOT
    /\ Lower(name[Len(name)]) = "usdz"

\* fnmatch.fnmatchcase(name, "*.usdz"): the name ends with ".usdz"
FnMatch(name) ==
    /\ Len(name) >= 2
    /\ SubSeq(name, Len(name) - 1, Len(name)) = Tail(Pattern)

\* glob._ishidden
IsHidden(name) == Len(name) >= 1 /\ name[1] = DOT

\* os.listdir(downloads_dir): the names of the entries directly inside it
\* (a path with a "/" shows as its first component, a directory)
ListDir(tree) ==
    {IF RFind(p, SEP) = 0 THEN p
     ELSE SubSeq(p, 1, (CHOOSE k \in 1..Len(p) : p[k] = SEP /\ \A j \in 1..(k-1) : p[j] # SEP) - 1)
     : p \in tree}

\* a glob whose match ignores case
GlobNoCase(tree) ==
    {Join(downloads_dir, n) : n \in {m \in ListDir(tree) : ~IsHidden(m) /\ FnMatchNoCase(m)}}

\* glob.glob(os.path.join(downloads_dir, "*.usdz")), as a set: glob1 lists the
\* directory, drops the hidden names (the pattern does not start with a dot)
\* and filters with fnmatch; each match is joined to the directory
Glob(tree) ==
    {Join(downloads_dir, n) : n \in {m \in ListDir(tree) : ~IsHidden(m) /\ FnMatch(m)}}

\* the orders in which the directory scan may return the set s
Orders(s) ==
    {f \in [1..Cardinality(s) -> s] : \A a, b \in 1..Cardinality(s) : f[a] = f[b] => a = b}

\* line 14 with a splitext that cuts at the first dot
StemFirstDot(usdz_path) == SplitExtFirstDot(BaseName(usdz_path))[1]

\* line 14: name = os.path.splitext(os.path.basename(usdz_path))[0]
Stem(usdz_path) == SplitExt(BaseName(usdz_path))[1]

\* name + ".glb"
GlbName(usdz_path) == Stem(usdz_path) \o <<DOT, "glb">>

\* an output name that carries the number of the run
GlbPathStamped(usdz_path) ==
    Join(output_dir,
         Stem(usdz_path) \o <<IF run = 1 THEN "-1" ELSE "-n">> \o <<DOT, "glb">>)

\* line 15: glb_path = os.path.join(output_dir, name + ".glb")
GlbPath(usdz_path) == Join(output_dir, GlbName(usdz_path))

----------------------------------------------------------------------------
(* The environment: the two directories and the host application *)

\* candidate entries of downloads/
NameUniverse ==
    { <<"a", DOT, "usdz">>,
      <<"a", DOT, "b", DOT, "usdz">>,
      <<"b", DOT, "usdz">>,
      <<"a", DOT, "USDZ">>,
      <<DOT, "h", DOT, "usdz">>,
      <<"a", DOT, "usd">>,
      <<"sub", SEP, "c", DOT, "usdz">> }

\* export options that depend on the position in the loop
ExportOptionsByPosition ==
    [ export_format                        |-> "GLB",
      export_image_format                  |-> "WEBP",
      export_image_add_webp                |-> FALSE,
      export_image_quality                 |-> IF idx = 1 THEN 15 ELSE 80,
      export_draco_mesh_compression_enable |-> TRUE,
      export_draco_mesh_compression_level  |-> 6 ]

\* lines 22-27: the keyword arguments of every export, besides filepath
ExportOptions ==
    [ export_format                        |-> "GLB",
      export_image_format                  |-> "WEBP",
      export_image_add_webp                |-> FALSE,
      export_image_quality                 |-> 15,
      export_draco_mesh_compression_enable |-> TRUE,
      export_draco_mesh_compression_level  |-> 6 ]

\* a file that was in output/ before the first run, written by something else
OldContent ==
    [ src      |-> {<<"old">>},
      opts     |-> [ export_format                        |-> "GLB",
                     export_image_format                  |-> "AUTO",
                     export_image_add_webp                |-> FALSE,
                     export_image_quality                 |-> 75,
                     export_draco_mesh_compression_enable |-> FALSE,
                     export_draco_mesh_compression_level  |-> 6 ],
      run      |-> 0,
      complete |-> TRUE ]

\* what output/ may hold before the first run: a file whose name one of the
\* inputs maps to, and two unrelated ones
OldFiles ==
    { Join(output_dir, <<"a", DOT, "glb">>),
      Join(output_dir, <<"z", DOT, "glb">>),
      Join(output_dir, <<"k", DOT, "txt">>) }

\* the scene of a freshly started host: its startup objects
StartupScene == {<<"startup">>}

\* the file system after writing content c to path p
WriteFile(fs, p, c) == [q \in (DOMAIN fs) \cup {p} |-> IF q = p THEN c ELSE fs[q]]

NoFiles == [q \in {} |-> OldContent]

\* the line of line 10
NoFilesLine == <<"No .usdz files found in downloads/">>

\* the line of line 29
DoneLine(path) == <<"DONE: ">> \o path

Event(op, kwargs, res) == [op |-> op, kwargs |-> kwargs, res |-> res]

Terminated == pc \in {"exit1", "done", "fault"}

----------------------------------------------------------------------------
(* The script *)

Init ==
    /\ downloads \in {s \in SUBSET NameUniverse : Cardinality(s) <= MaxFiles}
    /\ \/ outputExists = FALSE /\ output = NoFiles
       \/ outputExists = TRUE /\ output = NoFiles
       \/ outputExists = TRUE /\ output = [q \in OldFiles |-> OldContent]
    /\ pc = "makedirs"
    /\ usdz_files = <<>>
    /\ idx = 0
    /\ glb_path = <<>>
    /\ scene = StartupScene
    /\ stdout = <<>>
    /\ events = <<>>
    /\ hung = FALSE
    /\ run = 1
    /\ prev_done = FALSE
    /\ prev_names = {}

\* a makedirs that empties the directory it finds (rmtree, then mkdir)
MakeDirsClearing ==
    /\ pc = "makedirs"
    /\ outputExists' = TRUE
    /\ output' = NoFiles
    /\ pc' = "glob"
    /\ UNCHANGED <<downloads, usdz_files, idx, glb_path, scene, stdout, events, hung, run,
                   prev_done, prev_names>>

\* line 6: os.makedirs(output_dir, exist_ok=True)
MakeDirs ==
    /\ pc = "makedirs"
    /\ outputExists' = TRUE
    /\ pc' = "glob"
    /\ UNCHANGED <<downloads, output, usdz_files, idx, glb_path, scene, stdout, events,
                   hung, run, prev_done, prev_names>>

\* line 8: usdz_files = glob.glob(...), in the order the directory lists them
ScanDir ==
    /\ pc = "glob"
    /\ usdz_files' \in Orders(Glob(downloads))
    /\ pc' = "check"
    /\ UNCHANGED <<downloads, outputExists, output, idx, glb_path, scene, stdout, events,
                   hung, run, prev_done, prev_names>>

\* lines 9-11 without the sys.exit(1)
CheckEmptyNoExit ==
    /\ pc = "check"
    /\ stdout' = IF usdz_files = <<>> THEN Append(stdout, NoFilesLine) ELSE stdout
    /\ pc' = "for"
    /\ idx' = 1
    /\ UNCHANGED <<downloads, outputExists, output, usdz_files, glb_path, scene, events,
                   hung, run, prev_done, prev_names>>

\* lines 9-11: if not usdz_files: print(...); sys.exit(1)
CheckEmpty ==
    /\ pc = "check"
    /\ IF usdz_files = <<>>
       THEN /\ stdout' = Append(stdout, NoFilesLine)
            /\ pc' = "exit1"
            /\ idx' = idx
       ELSE /\ stdout' = stdout
            /\ pc' = "for"
            /\ idx' = 1
    /\ UNCHANGED <<downloads, outputExists, output, usdz_files, glb_path, scene, events,
                   hung, run, prev_done, prev_names>>

\* a loop that leaves out the last file
ForNextOffByOne ==
    /\ pc = "for"
    /\ IF idx < Len(usdz_files)
       THEN /\ glb_path' = GlbPath(usdz_files[idx])
            /\ pc' = "reset"
       ELSE /\ glb_path' = glb_path
            /\ pc' = "done"
    /\ UNCHANGED <<downloads, outputExists, output, usdz_files, idx, scene, stdout, events,
                   hung, run, prev_done, prev_names>>

\* a script that does not end after its loop
ForNextStuck ==
    /\ pc = "for"
    /\ idx <= Len(usdz_files)
    /\ glb_path' = GlbPath(usdz_files[idx])
    /\ pc' = "reset"
    /\ UNCHANGED <<downloads, outputExists, output, usdz_files, idx, scene, stdout, events,
                   hung, run, prev_done, prev_names>>

\* lines 13-15: the next file of the loop, or the end of the script
ForNext ==
    /\ pc = "for"
    /\ IF idx <= Len(usdz_files)
       THEN /\ glb_path' = GlbPath(usdz_files[idx])
            /\ pc' = "reset"
       ELSE /\ glb_path' = glb_path
            /\ pc' = "done"
    /\ UNCHANGED <<downloads, outputExists, output, usdz_files, idx, scene, stdout, events,
                   hung, run, prev_done, prev_names>>

\* a host call that raises inside try/except: the loop goes on with the next file
RaiseCaught(op, kwargs) ==
    /\ events' = Append(events, Event(op, kwargs, "fail"))
    /\ pc' = "for"
    /\ idx' = idx + 1
    /\ hung' = hung

\* a host call that raises: the exception is not caught, the script ends
Raise(op, kwargs) ==
    /\ events' = Append(events, Event(op, kwargs, "fail"))
    /\ pc' = "fault"
    /\ idx' = idx
    /\ hung' = hung

\* a host call that never returns
Hang(op, kwargs) ==
    /\ events' = Append(events, Event(op, kwargs, "hang"))
    /\ pc' = pc
    /\ idx' = idx
    /\ hung' = TRUE

\* an iteration that does not reset the host
ResetKeepScene ==
    /\ pc = "reset"
    /\ ~hung
    /\ LET kwargs == [use_empty |-> TRUE] IN
       \/ /\ scene' = scene
          /\ events' = Append(events, Event("reset", kwargs, "ok"))
          /\ pc' = "import"
          /\ idx' = idx
          /\ hung' = hung
       \/ Raise("reset", kwargs) /\ scene' = scene
       \/ Hang("reset", kwargs) /\ scene' = scene
    /\ UNCHANGED <<downloads, outputExists, output, usdz_files, glb_path, stdout, run,
                   prev_done, prev_names>>

\* line 17: bpy.ops.wm.read_factory_settings(use_empty=True)
Reset ==
    /\ pc = "reset"
    /\ ~hung
    /\ LET kwargs == [use_empty |-> TRUE] IN
       \/ /\ scene' = {}
          /\ events' = Append(events, Event("reset", kwargs, "ok"))
          /\ pc' = "import"
          /\ idx' = idx
          /\ hung' = hung
       \/ Raise("reset", kwargs) /\ scene' = scene
       \/ Hang("reset", kwargs) /\ scene' = scene
    /\ UNCHANGED <<downloads, outputExists, output, usdz_files, glb_path, stdout, run,
                   prev_done, prev_names>>

\* line 18: bpy.ops.wm.usd_import(filepath=usdz_path)
Import ==
    /\ pc = "import"
    /\ ~hung
    /\ LET kwargs == [filepath |-> usdz_files[idx]] IN
       \/ /\ scene' = scene \cup {kwargs.filepath}
          /\ events' = Append(events, Event("import", kwargs, "ok"))
          /\ pc' = "export"
          /\ idx' = idx
          /\ hung' = hung
       \/ Raise("import", kwargs) /\ scene' = scene
       \/ Hang("import", kwargs) /\ scene' = scene
    /\ UNCHANGED <<downloads, outputExists, output, usdz_files, glb_path, stdout, run,
                   prev_done, prev_names>>

\* lines 20-28: bpy.ops.export_scene.gltf(filepath=glb_path, ...); a failed
\* export leaves nothing or an incomplete file
Export ==
    /\ pc = "export"
    /\ ~hung
    /\ LET kwargs  == [filepath |-> glb_path, options |-> ExportOptions]
           written == [src |-> scene, opts |-> kwargs.options, run |-> run,
                       complete |-> TRUE]
       IN
       \/ /\ outputExists
          /\ output' = WriteFile(output, kwargs.filepath, written)
          /\ events' = Append(events, Event("export", kwargs, "ok"))
          /\ pc' = "print"
          /\ idx' = idx
          /\ hung' = hung
       \/ /\ Raise("export", kwargs)
          /\ \/ output' = output
             \/ /\ outputExists
                /\ output' = WriteFile(output, kwargs.filepath,
                                       [written EXCEPT !.complete = FALSE])
       \/ Hang("export", kwargs) /\ output' = output
    /\ UNCHANGED <<downloads, outputExists, usdz_files, glb_path, scene, stdout, run,
                   prev_done, prev_names>>

\* line 29: print(f"DONE: {glb_path}"), and on to the next file
PrintDone ==
    /\ pc = "print"
    /\ stdout' = Append(stdout, DoneLine(glb_path))
    /\ events' = Append(events, Event("print", [line |-> DoneLine(glb_path)], "ok"))
    /\ idx' = idx + 1
    /\ pc' = "for"
    /\ UNCHANGED <<downloads, outputExists, output, usdz_files, glb_path, scene, hung, run,
                   prev_done, prev_names>>

\* the script is started again, in a fresh host process, on the same
\* directories
Rerun ==
    /\ Terminated
    /\ run < MaxRuns
    /\ run' = run + 1
    /\ pc' = "makedirs"
    /\ usdz_files' = <<>>
    /\ idx' = 0
    /\ glb_path' = <<>>
    /\ scene' = StartupScene
    /\ stdout' = <<>>
    /\ events' = <<>>
    /\ prev_done' = (pc = "done")
    /\ prev_names' = DOMAIN output
    /\ UNCHANGED <<downloads, outputExists, output, hung>>

\* one statement of the script
Step ==
    \/ MakeDirs
    \/ ScanDir
    \/ CheckEmpty
    \/ ForNext
    \/ Reset
    \/ Import
    \/ Export
    \/ PrintDone

Next == Step \/ Rerun

Spec == Init /\ [][Next]_vars

\* the interpreter keeps executing statements; nothing obliges a rerun
LiveSpec == Spec /\ WF_vars(Step)

----------------------------------------------------------------------------
(* What the properties speak of, stated without the script's own helpers *)

\* an entry directly inside downloads/ whose name the pattern *.usdz matches
IsUsdzEntry(n) ==
    /\ \A k \in 1..Len(n) : n[k] # SEP
    /\ Len(n) >= 2
    /\ n[1] # DOT
    /\ n[Len(n) - 1] = DOT
    /\ n[Len(n)] = "usdz"

UsdzEntries == {n \in downloads : IsUsdzEntry(n)}

InputPath(n) == downloads_dir \o <<SEP>> \o n

\* <input-basename>.glb in output/
ExpectedGlb(n) == output_dir \o <<SEP>> \o SubSeq(n, 1, Len(n) - 2) \o <<DOT, "glb">>

ExpectedGlbOf(path) == ExpectedGlb(SubSeq(path, Len(downloads_dir) + 2, Len(path)))

ExpectedOutputs == {ExpectedGlb(n) : n \in UsdzEntries}

DoneLines == SelectSeq(stdout, LAMBDA l : l[1] = "DONE: ")

EventsOf(op) == SelectSeq(events, LAMBDA e : e.op = op)

AllCallsOk == \A k \in 1..Len(events) : events[k].res = "ok"

SomeCallFailed == \E k \in 1..Len(events) : events[k].res = "fail"

\* the files of output/ written during the current run
WrittenThisRun == {p \in DOMAIN output : output[p].run = run}

OpCycle == <<"reset", "import", "export", "print">>

----------------------------------------------------------------------------
(* C1: when every host call of a run succeeded and the run is over, the run *)
(* has written exactly one complete GLB per discovered input, named         *)
(* <input-basename>.glb, N in all, and stdout holds exactly N DONE lines,   *)
(* the k-th naming the output of the k-th discovered file.                  *)
C1_OneGlbPerInput ==
    (pc = "done" /\ AllCallsOk /\ Cardinality(UsdzEntries) >= 1) =>
        LET N == Cardinality(UsdzEntries) IN
        /\ Len(usdz_files) = N
        /\ {usdz_files[k] : k \in 1..Len(usdz_files)} = {InputPath(n) : n \in UsdzEntries}
        /\ WrittenThisRun = ExpectedOutputs
        /\ Cardinality(WrittenThisRun) = N
        /\ \A p \in WrittenThisRun : output[p].complete
        /\ Len(stdout) = N
        /\ \A k \in 1..N : stdout[k] = <<"DONE: ">> \o ExpectedGlbOf(usdz_files[k])

C1_Witness ==
    /\ pc = "done"
    /\ run = 1
    /\ Len(usdz_files) = 3
    /\ Len(DoneLines) = 3
    /\ Cardinality(WrittenThisRun) = 3

(* C2: with no entry matching *.usdz the script goes from the scan to exit  *)
(* status 1 having printed only the "no files" line, makes no host call,    *)
(* prints no DONE line, and leaves output/ existing with exactly the files  *)
(* it had before.                                                           *)
C2_NoInputs ==
    (UsdzEntries = {}) =>
        /\ pc \in {"makedirs", "glob", "check", "exit1"}
        /\ events = <<>>
        /\ DoneLines = <<>>
        /\ WrittenThisRun = {}
        /\ output = NoFiles \/ output = [q \in OldFiles |-> OldContent]
        /\ pc \in {"check", "exit1"} => usdz_files = <<>>
        /\ pc = "exit1" => (stdout = <<NoFilesLine>> /\ outputExists)
        /\ pc # "exit1" => stdout = <<>>

C2_Witness ==
    /\ pc = "exit1"
    /\ <<"a", DOT, "USDZ">> \in downloads
    /\ stdout = <<NoFilesLine>>
    /\ outputExists
    /\ output = NoFiles

(* C3: once a host call has failed the run is over: the failed call is the  *)
(* last event, it is one of the reset/import/export of the k-th file, it    *)
(* was attempted once, exactly k-1 DONE lines were printed, the outputs of  *)
(* the first k-1 files are complete in output/, and nothing happens in the  *)
(* run afterwards (the only step left is a new start of the script, which   *)
(* leaves output/ as it is).                                                *)
C3_FaultState ==
    SomeCallFailed =>
        /\ pc = "fault"
        /\ idx \in 1..Len(usdz_files)
        /\ events[Len(events)].res = "fail"
        /\ \A j \in 1..(Len(events) - 1) : events[j].res = "ok"
        /\ Len(events) \in (4 * (idx - 1) + 1)..(4 * (idx - 1) + 3)
        /\ events[Len(events)].op = OpCycle[Len(events) - 4 * (idx - 1)]
        /\ Len(stdout) = idx - 1
        /\ Len(DoneLines) = idx - 1
        /\ \A j \in 1..(idx - 1) :
              /\ ExpectedGlbOf(usdz_files[j]) \in DOMAIN output
              /\ output[ExpectedGlbOf(usdz_files[j])].run = run
              /\ output[ExpectedGlbOf(usdz_files[j])].complete

C3_FaultFinal == (pc = "fault") => (run' = run + 1 /\ output' = output)

\* C3: a failed host call ends the run at once (C3_FaultState in every state)
\* and nothing of the run happens after it (C3_FaultFinal for every step).
C3_AbortOnFailure == [](C3_FaultState) /\ [][C3_FaultFinal]_vars

C3_Witness ==
    /\ pc = "fault"
    /\ idx = 2
    /\ Len(usdz_files) = 3
    /\ events[Len(events)].op = "import"
    /\ Len(DoneLines) = 1

(* C4: after line 6 output/ exists, and no step of the script removes or    *)
(* changes a file of output/ whose name is not <basename>.glb of a          *)
(* discovered input.                                                        *)
C4_FrameStep ==
    \A p \in DOMAIN output :
        p \notin ExpectedOutputs => (p \in DOMAIN output' /\ output'[p] = output[p])

\* C4: output/ exists once line 6 has run, and every step keeps every file of
\* output/ that is not <basename>.glb of a discovered input (C4_FrameStep).
C4_OutputDirKept == [](pc # "makedirs" => outputExists) /\ [][C4_FrameStep]_vars

C4_Witness ==
    /\ pc = "done"
    /\ run = 1
    /\ Join(output_dir, <<"z", DOT, "glb">>) \in DOMAIN output
    /\ output[Join(output_dir, <<"z", DOT, "glb">>)] = OldContent
    /\ output[Join(output_dir, <<"k", DOT, "txt">>)] = OldContent
    /\ output[Join(output_dir, <<"a", DOT, "glb">>)].run = 1

(* C5: when a run that ended after its loop follows a run that ended after  *)
(* its loop, output/ holds the same file names as after the earlier run,    *)
(* and each <basename>.glb is the complete export of the later run.         *)
C5_RerunOverwrites ==
    (pc = "done" /\ prev_done) =>
        /\ DOMAIN output = prev_names
        /\ \A n \in UsdzEntries :
              /\ ExpectedGlb(n) \in DOMAIN output
              /\ output[ExpectedGlb(n)].run = run
              /\ output[ExpectedGlb(n)].complete
              /\ output[ExpectedGlb(n)].src = {InputPath(n)}

C5_Witness ==
    /\ pc = "done"
    /\ prev_done
    /\ run = 2
    /\ Cardinality(UsdzEntries) >= 2
    /\ \A n \in UsdzEntries : output[ExpectedGlb(n)].run = 2

\* how many times the run has called the import on path
ImportCount(path) ==
    Cardinality({k \in 1..Len(events) :
                    events[k].op = "import" /\ events[k].kwargs.filepath = path})

\* every import and every export of the run is that of a matching entry
C6_OnlyMatching ==
    \A k \in 1..Len(events) :
        /\ events[k].op = "import" =>
              \E n \in UsdzEntries : events[k].kwargs.filepath = InputPath(n)
        /\ events[k].op = "export" =>
              \E n \in UsdzEntries : events[k].kwargs.filepath = ExpectedGlb(n)

(* C6 as stated: when a run is over, every entry directly inside downloads/ *)
(* that matches *.usdz has been imported exactly once, and only such        *)
(* entries were imported or exported.                                       *)
C6_AsStated ==
    /\ C6_OnlyMatching
    /\ Terminated => \A n \in UsdzEntries : ImportCount(InputPath(n)) = 1

(* C6, amended: only entries directly inside downloads/ that match *.usdz   *)
(* are imported or exported; each is imported at most once in a run, and    *)
(* exactly once in a run that ended after its loop.                         *)
C6_ProcessedSet ==
    /\ C6_OnlyMatching
    /\ \A n \in UsdzEntries : ImportCount(InputPath(n)) <= 1
    /\ pc = "done" => \A n \in UsdzEntries : ImportCount(InputPath(n)) = 1

C6_Witness ==
    /\ pc = "done"
    /\ downloads = { <<"a", DOT, "usdz">>, <<"a", DOT, "USDZ">>,
                     <<"sub", SEP, "c", DOT, "usdz">> }
    /\ Len(EventsOf("import")) = 1
    /\ EventsOf("import")[1].kwargs.filepath = InputPath(<<"a", DOT, "usdz">>)

(* C7: every export call carries format GLB, image format WEBP, the WEBP    *)
(* "add" flag off, image quality 15, Draco compression on at level 6; its   *)
(* only other argument is the output path, the import takes only the input  *)
(* path and the reset only use_empty = TRUE.                                *)
C7_FixedExportOptions ==
    \A k \in 1..Len(events) :
        /\ events[k].op = "export" =>
              /\ DOMAIN events[k].kwargs = {"filepath", "options"}
              /\ DOMAIN events[k].kwargs.options =
                    {"export_format", "export_image_format", "export_image_add_webp",
                     "export_image_quality", "export_draco_mesh_compression_enable",
                     "export_draco_mesh_compression_level"}
              /\ events[k].kwargs.options.export_format = "GLB"
              /\ events[k].kwargs.options.export_image_format = "WEBP"
              /\ events[k].kwargs.options.export_image_add_webp = FALSE
              /\ events[k].kwargs.options.export_image_quality = 15
              /\ events[k].kwargs.options.export_draco_mesh_compression_enable = TRUE
              /\ events[k].kwargs.options.export_draco_mesh_compression_level = 6
        /\ events[k].op = "import" => DOMAIN events[k].kwargs = {"filepath"}
        /\ events[k].op = "reset" =>
              (DOMAIN events[k].kwargs = {"use_empty"} /\ events[k].kwargs.use_empty = TRUE)

C7_Witness ==
    /\ Len(EventsOf("export")) = 3
    /\ EventsOf("export")[1].kwargs.filepath # EventsOf("export")[3].kwargs.filepath
    /\ EventsOf("export")[3].res = "ok"

(* C8: the events of a run are reset, import, export, DONE for the first    *)
(* discovered file, then the same four for the second, and so on, each one  *)
(* starting only after the one before it succeeded; when the export is      *)
(* invoked the scene holds the current file and nothing else, and so does   *)
(* the file the export wrote.                                               *)
C8_StrictOrder ==
    /\ \A k \in 1..Len(events) :
          LET f == ((k - 1) \div 4) + 1
              o == OpCycle[((k - 1) % 4) + 1]
          IN  /\ events[k].op = o
              /\ f <= Len(usdz_files)
              /\ k < Len(events) => events[k].res = "ok"
              /\ o = "import" => events[k].kwargs.filepath = usdz_files[f]
              /\ o = "export" => events[k].kwargs.filepath = ExpectedGlbOf(usdz_files[f])
              /\ o = "print" =>
                    events[k].kwargs.line = <<"DONE: ">> \o ExpectedGlbOf(usdz_files[f])
    /\ pc = "export" => scene = {usdz_files[idx]}
    /\ pc = "print" =>
          /\ output[glb_path].src = {usdz_files[idx]}
          /\ output[glb_path].complete
          /\ events[Len(events)].op = "export"

C8_Witness ==
    /\ pc = "export"
    /\ ~hung
    /\ idx = 2
    /\ Len(events) = 6
    /\ scene = {usdz_files[2]}

(* C9: as long as no host call hangs, a run that was started ends: with     *)
(* status 1 exactly when nothing matches, after N iterations and N DONE     *)
(* lines when it ends after the loop, and otherwise at a failed call.  A    *)
(* host call that hangs is the end of all progress: the run has not ended   *)
(* and no step is ever taken again.                                         *)
C9_HowItEnds ==
    /\ pc = "exit1" <=> (Terminated /\ UsdzEntries = {})
    /\ pc = "done" =>
          /\ idx = Cardinality(UsdzEntries) + 1
          /\ Len(DoneLines) = Cardinality(UsdzEntries)
          /\ AllCallsOk
    /\ pc = "fault" => events[Len(events)].res = "fail"
    /\ hung => (~Terminated /\ events[Len(events)].res = "hang")

\* C9: every state ends as C9_HowItEnds says, no step leaves a hung state, and
\* a started run leads to a terminated or a hung one.
C9_Termination ==
    /\ [](C9_HowItEnds)
    /\ [][~hung]_vars
    /\ (pc = "makedirs") ~> (Terminated \/ hung)

C9_Witness ==
    /\ hung
    /\ pc = "import"
    /\ idx = 2
    /\ Len(DoneLines) = 1
    /\ Len(usdz_files) = 3

(* C10: the output paths of the files of one scan are pairwise distinct,    *)
(* so there are as many of them as discovered files, and no path is the     *)
(* target of two exports of the same run.                                   *)
C10_DistinctOutputs ==
    /\ \A a, b \in 1..Len(usdz_files) :
          GlbPath(usdz_files[a]) = GlbPath(usdz_files[b]) => a = b
    /\ Cardinality({GlbPath(usdz_files[k]) : k \in 1..Len(usdz_files)}) = Len(usdz_files)
    /\ \A a, b \in 1..Len(events) :
          (/\ events[a].op = "export"
           /\ events[b].op = "export"
           /\ events[a].kwargs.filepath = events[b].kwargs.filepath) => a = b

C10_Witness ==
    /\ pc = "done"
    /\ {<<"a", DOT, "usdz">>, <<"a", DOT, "b", DOT, "usdz">>} \subseteq downloads
    /\ Len(EventsOf("export")) >= 2
    /\ Join(output_dir, <<"a", DOT, "glb">>) \in WrittenThisRun
    /\ Join(output_dir, <<"a", DOT, "b", DOT, "glb">>) \in WrittenThisRun

====
